---- MODULE Spec2Model ----
(***************************************************************************)
(* State-machine model of src/server.js: the comic index (comicsDB and its *)
(* durable snapshot comics.json), the reconciliation pass                   *)
(* scanComicsDirectory / processNewComic, the startup sequence initialize   *)
(* and the two HTTP handlers.                                               *)
(*                                                                          *)
(* Strings are sequences of one-character strings, so that path.extname,    *)
(* toLowerCase, parseInt and localeCompare are computed, not assumed.       *)
(* One action is one run of JavaScript between two awaits of real I/O       *)
(* (readdir, readFile, writeFile): Node runs such a stretch to completion.  *)
(***************************************************************************)
EXTENDS Integers, Sequences, FiniteSets, TLC

(***************************************************************************)
(* Bounds of the model.                                                     *)
(***************************************************************************)
\* number of GET /api/comics requests of one run (each triggers one pass)
MaxRequests == 2
\* number of changes the environment makes to the comics directory
MaxDirChanges == 1
\* number of times the process is killed and started again
MaxRestarts == 1

(***************************************************************************)
(* Characters and strings.                                                  *)
(***************************************************************************)
Digits == <<"0", "1", "2", "3", "4", "5", "6", "7", "8", "9">>

Uppers == <<"A", "B", "C", "D", "E", "F", "G", "H", "I", "J", "K", "L", "M",
            "N", "O", "P", "Q", "R", "S", "T", "U", "V", "W", "X", "Y", "Z">>

Lowers == <<"a", "b", "c", "d", "e", "f", "g", "h", "i", "j", "k", "l", "m",
            "n", "o", "p", "q", "r", "s", "t", "u", "v", "w", "x", "y", "z">>

\* position of c in the sequence s, 0 when absent
IndexOf(s, c) ==
  IF \E i \in 1..Len(s) : s[i] = c
    THEN CHOOSE i \in 1..Len(s) : s[i] = c
    ELSE 0

DigitSet == {Digits[i] : i \in 1..Len(Digits)}
UpperSet == {Uppers[i] : i \in 1..Len(Uppers)}
LowerSet == {Lowers[i] : i \in 1..Len(Lowers)}

IsDigit(c) == c \in DigitSet
IsUpper(c) == c \in UpperSet
IsLower(c) == c \in LowerSet

\* the characters of the model's strings
Chars == DigitSet \cup UpperSet \cup LowerSet \cup {" ", "+", "-", ".", "/"}

\* UTF-16 code unit of the ASCII characters the model uses
CharCode(c) ==
  CASE c = " " -> 32
    [] c = "+" -> 43
    [] c = "-" -> 45
    [] c = "." -> 46
    [] c = "/" -> 47
    [] IsDigit(c) -> 47 + IndexOf(Digits, c)
    [] IsUpper(c) -> 64 + IndexOf(Uppers, c)
    [] IsLower(c) -> 96 + IndexOf(Lowers, c)

\* String.prototype.toLowerCase, one character
LowerChar(c) == IF IsUpper(c) THEN Lowers[IndexOf(Uppers, c)] ELSE c

\* LowerChar, tabulated
LowerTable == [c \in Chars |-> LowerChar(c)]

\* String.prototype.toLowerCase
ToLowerCase(s) == [i \in 1..Len(s) |-> LowerTable[s[i]]]

\* path.extname of a base name (no separator in it): from the last "." on;
\* empty when there is no ".", when the only "." is the first character,
\* and for ".."
ExtName(s) ==
  LET dots == {i \in 1..Len(s) : s[i] = "."}
      last == CHOOSE i \in dots : \A j \in dots : j <= i
  IN  IF dots = {} THEN <<>>
      ELSE IF last = 1 THEN <<>>
      ELSE IF s = <<".", ".">> THEN <<>>
      ELSE SubSeq(s, last, Len(s))

\* path.parse(s).name: the base name without its extension
ParseName(s) == SubSeq(s, 1, Len(s) - Len(ExtName(s)))

\* path.join(COMICS_DIR, fileName)
COMICS_DIR == <<"c", "o", "m", "i", "c", "s">>
PathJoin(d, f) == d \o <<"/">> \o f

(***************************************************************************)
(* String comparison.                                                       *)
(***************************************************************************)
\* comparison of two sequences of integer keys: -1, 0 or 1
RECURSIVE KeyCompare(_, _)
KeyCompare(a, b) ==
  IF a = <<>> /\ b = <<>> THEN 0
  ELSE IF a = <<>> THEN -1
  ELSE IF b = <<>> THEN 1
  ELSE IF Head(a) < Head(b) THEN -1
  ELSE IF Head(a) > Head(b) THEN 1
  ELSE KeyCompare(Tail(a), Tail(b))

\* primary collation weight of a character in the root collation of ICU
\* (the Intl build of Node): punctuation, then digits, then letters, where
\* a letter's case does not count
PrimaryWeight(c) ==
  CASE c = " " -> 1
    [] c = "-" -> 2
    [] c = "." -> 3
    [] c = "+" -> 4
    [] c = "/" -> 5
    [] IsDigit(c) -> 10 + IndexOf(Digits, c)
    [] IsUpper(c) -> 30 + IndexOf(Uppers, c)
    [] IsLower(c) -> 30 + IndexOf(Lowers, c)

\* tertiary weight: lower case sorts before upper case
TertiaryWeight(c) == IF IsUpper(c) THEN 1 ELSE 0

\* the weights, tabulated
PrimaryTable == [c \in Chars |-> PrimaryWeight(c)]
TertiaryTable == [c \in Chars |-> TertiaryWeight(c)]

\* a.localeCompare(b): primary weights decide, case breaks the tie
LocaleCompare(a, b) ==
  LET p == KeyCompare([i \in 1..Len(a) |-> PrimaryTable[a[i]]],
                      [i \in 1..Len(b) |-> PrimaryTable[b[i]]])
  IN  IF p # 0 THEN p
      ELSE KeyCompare([i \in 1..Len(a) |-> TertiaryTable[a[i]]],
                      [i \in 1..Len(b) |-> TertiaryTable[b[i]]])

\* the comparator handed to Array.prototype.sort by both classifiers
NameComparator(a, b) == LocaleCompare(a.name, b.name)

\* Array.prototype.sort with a comparator (stable): insertion of e into the
\* sorted sequence s after every element that does not compare greater
RECURSIVE Insert(_, _)
Insert(e, s) ==
  IF s = <<>> THEN <<e>>
  ELSE IF NameComparator(Head(s), e) <= 0 THEN <<Head(s)>> \o Insert(e, Tail(s))
  ELSE <<e>> \o s

RECURSIVE SortEntries(_)
SortEntries(s) ==
  IF s = <<>> THEN <<>>
  ELSE Insert(s[Len(s)], SortEntries(SubSeq(s, 1, Len(s) - 1)))

(***************************************************************************)
(* The image classifier.                                                    *)
(***************************************************************************)
IMAGE_EXTENSIONS == {<<".", "j", "p", "g">>, <<".", "j", "p", "e", "g">>,
                     <<".", "p", "n", "g">>, <<".", "g", "i", "f">>,
                     <<".", "w", "e", "b", "p">>}

\* the extension test as a test of the end of the name
IsImageEntry_BySuffix(entry) ==
  \E ext \in IMAGE_EXTENSIONS :
    /\ Len(entry.name) >= Len(ext)
    /\ ToLowerCase(SubSeq(entry.name, Len(entry.name) - Len(ext) + 1, Len(entry.name))) = ext

\* IMAGE_EXTENSIONS.has(path.extname(entry.name).toLowerCase())
IsImageEntry(entry) == ToLowerCase(ExtName(entry.name)) \in IMAGE_EXTENSIONS

NotDirectory(entry) == ~entry.isDirectory

\* zipEntries.filter(not directory).filter(image extension).sort(by name)
Images(zipEntries) ==
  SortEntries(SelectSeq(SelectSeq(zipEntries, NotDirectory), IsImageEntry))

(***************************************************************************)
(* Archives: what new AdmZip(filePath).getEntries() returns for each of a   *)
(* few archive contents.  A directory entry has the empty name.             *)
(***************************************************************************)
File(n, d) == [name |-> n, isDirectory |-> FALSE, data |-> d]
Directory == [name |-> <<>>, isDirectory |-> TRUE, data |-> "none"]

\* the readable archive contents
ReadableContents == {"noimg", "two", "case"}
\* "corrupt": a file that is no zip archive, new AdmZip throws on it
Contents == ReadableContents \cup {"corrupt"}
Absent == "absent"

EntriesOf(content) ==
  CASE content = "noimg" -> <<Directory, File(<<"c", ".", "t", "x", "t">>, "c.txt"),
                              File(<<".", "j", "p", "g">>, ".jpg")>>
    [] content = "two"   -> <<File(<<"b", ".", "p", "n", "g">>, "b.png"),
                              File(<<"a", ".", "j", "p", "e", "g">>, "a.jpeg"), Directory>>
    [] content = "case"  -> <<File(<<"b", ".", "g", "i", "f">>, "b.gif"),
                              File(<<"B", ".", "J", "P", "G">>, "B.JPG"),
                              File(<<"a", ".", "w", "e", "b", "p">>, "a.webp")>>

\* the names a file of the comics directory can have
ZipA == <<"a", ".", "z", "i", "p">>
ZipB == <<"b", ".", "Z", "I", "P">>
Note == <<"n", ".", "t", "x", "t">>
FileNames == {ZipA, ZipB, Note}

\* what a file of the directory can hold
Holds(f) ==
  CASE f = ZipA -> Contents \cup {Absent}
    [] f = ZipB -> {Absent, "corrupt", "two"}
    [] f = Note -> {"two"}

\* the classified images of each readable content (Images, tabulated)
ImagesTable == [content \in ReadableContents |-> Images(EntriesOf(content))]

\* zip.getEntries() followed by the classifier
ArchiveImages(content) == ImagesTable[content]

\* an entry is a qualifying image: no directory, and its name is a non-empty
\* stem followed by one of the image extensions in any letter case
Qualifies(entry) ==
  /\ ~entry.isDirectory
  /\ \E k \in 2..Len(entry.name) :
       LET suffix == SubSeq(entry.name, k, Len(entry.name))
       IN  \E ext \in IMAGE_EXTENSIONS :
             /\ Len(ext) = Len(suffix)
             /\ \A i \in 1..Len(ext) :
                  suffix[i] = ext[i] \/ (IsUpper(suffix[i]) /\ LowerChar(suffix[i]) = ext[i])

\* the qualifying images of an archive content, in archive order
Qualifying(content) ==
  IF content \in ReadableContents THEN SelectSeq(EntriesOf(content), Qualifies) ELSE <<>>

QualifyingTable == [content \in Contents \cup {Absent} |-> Qualifying(content)]

\* the number of qualifying images of an archive content
QualifyingCount(content) == Len(QualifyingTable[content])

\* has the archive content at least one qualifying image
HasImages(content) == QualifyingCount(content) > 0

(***************************************************************************)
(* State.                                                                   *)
(***************************************************************************)
\* pass 0 is the pass of initialize(), pass r the pass of list request r
Requests == 1..MaxRequests
Passes == 0..MaxRequests

None == "none"

\* the states of comics.json: no file, a file JSON.parse throws on, or a
\* file holding the records JSON.stringify wrote
DbAbsent == [state |-> "absent", records |-> <<>>]
DbCorrupt == [state |-> "corrupt", records |-> <<>>]
DbOk(records) == [state |-> "ok", records |-> records]

\* no list response yet, and the 200 response res.json(db)
NoListReply == [status |-> 0, body |-> <<>>]
ListReply(db) == [status |-> 200, body |-> db]

\* a response of the page handler, and no response
Reply(id, pageNumber, status, type, body) ==
  [id |-> id, pageNumber |-> pageNumber, status |-> status, type |-> type, body |-> body]
NoReply == Reply(0, <<>>, 0, "", "")

\* no record under construction
NoCurrent == [record |-> <<>>, coverData |-> ""]

VARIABLES
  dir,          \* the comics directory: file name -> content, or Absent
  dirChanges,   \* history: number of changes made to the directory so far
  hadImages,    \* history: file names that ever held an archive with an image
  dbFile,       \* comics.json
  coverFiles,   \* public/covers: comic id -> bytes of the file <id>.jpg
  coverOwner,   \* history: comic id -> the archive its cover was taken from
  comicsDB,     \* the in-memory index
  nextId,       \* the ids uuidv4() has handed out are 0..nextId-1
  boot,         \* where the startup sequence stands
  parseFailed,  \* history: JSON.parse threw in initialize()
  pc,           \* pass -> where it stands
  files,        \* pass -> zipFiles, the listing it iterates over
  idx,          \* pass -> position in zipFiles
  cur,          \* pass -> the record under construction and its cover bytes
  pending,      \* pass -> the snapshot its writeFile(DB_FILE) is writing
  failure,      \* history: pass -> what made it throw
  epoch,        \* history: pass -> dirChanges when it started
  listResp,     \* list request -> body of its 200 response
  restarts,     \* number of times the process was killed and started again
  pageResp      \* the response of the page request just answered

vars == <<dir, dirChanges, hadImages, dbFile, coverFiles, coverOwner, comicsDB,
          nextId, boot, parseFailed, pc, files, idx, cur, pending, failure,
          epoch, listResp, restarts, pageResp>>

dirVars == <<dir, dirChanges, hadImages>>
passVars == <<pc, files, idx, cur, pending, failure, epoch>>

Init ==
  /\ dir \in {d \in [FileNames -> Contents \cup {Absent}] :
                \A f \in FileNames : d[f] \in Holds(f)}
  /\ dirChanges = 0
  /\ hadImages = {f \in FileNames : HasImages(dir[f])}
  /\ dbFile \in {DbAbsent, DbCorrupt, DbOk(<<>>)}
  /\ coverFiles = <<>>
  /\ coverOwner = <<>>
  /\ comicsDB = <<>>
  /\ nextId = 0
  /\ boot = "readDB"
  /\ parseFailed = FALSE
  /\ pc = [p \in Passes |-> "idle"]
  /\ files = [p \in Passes |-> <<>>]
  /\ idx = [p \in Passes |-> 0]
  /\ cur = [p \in Passes |-> NoCurrent]
  /\ pending = [p \in Passes |-> <<>>]
  /\ failure = [p \in Passes |-> None]
  /\ epoch = [p \in Passes |-> 0]
  /\ listResp = [r \in Requests |-> NoListReply]
  /\ restarts = 0
  /\ pageResp = NoReply

(***************************************************************************)
(* processNewComic up to its first await, and the loop of                   *)
(* scanComicsDirectory.                                                     *)
(***************************************************************************)
\* the lookup comparing the wrong field
Existing_ByTitle(db, file) == \E k \in 1..Len(db) : db[k].title = file

\* comicsDB.find(c => c.fileName === file)
Existing(db, file) == \E k \in 1..Len(db) : db[k].fileName = file

\* `/covers/${id}.jpg`
CoverRef(id) == <<"/covers/", id, ".jpg">>

\* the record literal with the index of the last page as its pageCount
NewRecord_LastIndex(id, fileName, images) ==
  [id |-> id,
   fileName |-> fileName,
   filePath |-> PathJoin(COMICS_DIR, fileName),
   title |-> ParseName(fileName),
   cover |-> <<>>,
   pageCount |-> Len(images) - 1,
   tags |-> <<>>]

\* the record literal of processNewComic (addedAt, the wall clock at that
\* moment, is not tracked)
NewRecord(id, fileName, images) ==
  [id |-> id,
   fileName |-> fileName,
   filePath |-> PathJoin(COMICS_DIR, fileName),
   title |-> ParseName(fileName),
   cover |-> <<>>,
   pageCount |-> Len(images),
   tags |-> <<>>]

\* processNewComic(fileName) until it awaits the write of the cover:
\* "throw" when new AdmZip throws, "skip" when it returns at once,
\* "cover" when it goes on to write the cover
ProcessNewComic(fileName, d, id) ==
  IF d[fileName] \notin ReadableContents
    THEN [kind |-> "throw"]
    ELSE LET images == ArchiveImages(d[fileName])
         IN  IF Len(images) = 0
               THEN [kind |-> "skip"]
               ELSE [kind |-> "cover",
                     record |-> NewRecord(id, fileName, images),
                     coverData |-> images[1].data]

\* the for loop of scanComicsDirectory from position i on, run until the
\* pass ends, throws or awaits I/O
RECURSIVE ScanFrom(_, _, _, _, _)
ScanFrom(zipFiles, i, db, d, id) ==
  IF i > Len(zipFiles) THEN [kind |-> "done", idx |-> i]
  ELSE IF Existing(db, zipFiles[i]) THEN ScanFrom(zipFiles, i + 1, db, d, id)
  ELSE LET o == ProcessNewComic(zipFiles[i], d, id)
       IN  IF o.kind = "skip" THEN ScanFrom(zipFiles, i + 1, db, d, id)
           ELSE IF o.kind = "throw" THEN [kind |-> "throw", idx |-> i]
           ELSE [kind |-> "cover", idx |-> i, record |-> o.record,
                 coverData |-> o.coverData]

\* files.filter(file => path.extname(file).toLowerCase() === '.zip')
IsZip(file) == ToLowerCase(ExtName(file)) = <<".", "z", "i", "p">>

\* the orders in which readdir can list the files of set S
Listings(S) ==
  {l \in [1..Cardinality(S) -> S] : \A i, j \in 1..Cardinality(S) : l[i] = l[j] => i = j}

\* the pass has ended normally: initialize() goes on to app.listen, a list
\* request answers res.json(comicsDB)
Finish(p, db) ==
  IF p = 0
    THEN boot' = "listening" /\ listResp' = listResp
    ELSE boot' = boot /\ listResp' = [listResp EXCEPT ![p] = ListReply(db)]

\* the pass has thrown: initialize() rejects and the server never listens;
\* in a request handler the rejection is unhandled, which ends the process
\* or not, depending on the Node version
Fail(p) ==
  /\ listResp' = listResp
  /\ IF p = 0 THEN boot' = "failed" ELSE boot' \in {boot, "exited"}

\* run the loop of pass p from position i with the index db
Advance(p, zipFiles, i, db) ==
  LET o == ScanFrom(zipFiles, i, db, dir, nextId)
  IN  /\ idx' = [idx EXCEPT ![p] = o.idx]
      /\ files' = [files EXCEPT ![p] = zipFiles]
      /\ pending' = [pending EXCEPT ![p] = <<>>]
      /\ epoch' = epoch
      /\ IF o.kind = "done"
           THEN /\ pc' = [pc EXCEPT ![p] = "done"]
                /\ cur' = [cur EXCEPT ![p] = NoCurrent]
                /\ failure' = failure
                /\ nextId' = nextId
                /\ Finish(p, db)
         ELSE IF o.kind = "throw"
           THEN /\ pc' = [pc EXCEPT ![p] = "failed"]
                /\ cur' = [cur EXCEPT ![p] = NoCurrent]
                /\ failure' = [failure EXCEPT ![p] = "archive"]
                /\ nextId' = nextId
                /\ Fail(p)
         ELSE /\ pc' = [pc EXCEPT ![p] = "cover"]
              /\ cur' = [cur EXCEPT ![p] =
                           [record |-> o.record, coverData |-> o.coverData]]
              /\ failure' = failure
              /\ nextId' = nextId + 1
              /\ boot' = boot
              /\ listResp' = listResp

\* the process is running
Alive == boot # "exited"

(***************************************************************************)
(* initialize()                                                             *)
(***************************************************************************)
\* scanComicsDirectory() is called: it awaits readdir
StartScan(p) ==
  /\ pc' = [pc EXCEPT ![p] = "readdir"]
  /\ epoch' = [epoch EXCEPT ![p] = dirChanges]
  /\ UNCHANGED <<files, idx, cur, pending, failure>>

\* readFile(DB_FILE) has settled
ReadDBDone ==
  /\ boot = "readDB"
  /\ \/ /\ dbFile.state = "absent"      \* ENOENT: await writeFile(DB_FILE, '[]')
        /\ boot' = "writeEmpty"
        /\ UNCHANGED <<comicsDB, parseFailed, passVars>>
     \/ /\ dbFile.state = "corrupt"     \* JSON.parse throws, the catch swallows it
        /\ parseFailed' = TRUE
        /\ boot' = "scanning"
        /\ StartScan(0)
        /\ UNCHANGED comicsDB
     \/ /\ dbFile.state = "ok"          \* comicsDB = JSON.parse(data)
        /\ comicsDB' = dbFile.records
        /\ boot' = "scanning"
        /\ StartScan(0)
        /\ UNCHANGED parseFailed
  /\ pageResp = NoReply
  /\ pageResp' = pageResp
  /\ UNCHANGED <<dirVars, dbFile, coverFiles, coverOwner, nextId, listResp,
                 restarts>>

\* writeFile(DB_FILE, '[]') has succeeded
WriteEmptyDone ==
  /\ boot = "writeEmpty"
  /\ dbFile' = DbOk(<<>>)
  /\ boot' = "scanning"
  /\ StartScan(0)
  /\ pageResp = NoReply
  /\ pageResp' = pageResp
  /\ UNCHANGED <<dirVars, coverFiles, coverOwner, comicsDB, nextId, parseFailed, listResp,
                 restarts>>

\* writeFile(DB_FILE, '[]') has failed, before creating the file or after:
\* initialize() rejects
WriteEmptyFail ==
  /\ boot = "writeEmpty"
  /\ boot' = "failed"
  /\ dbFile' \in {dbFile, DbCorrupt}
  /\ pageResp = NoReply
  /\ pageResp' = pageResp
  /\ UNCHANGED <<dirVars, coverFiles, coverOwner, comicsDB, nextId,
                 parseFailed, passVars, listResp,
                 restarts>>

(***************************************************************************)
(* scanComicsDirectory() and processNewComic()                              *)
(***************************************************************************)
\* a server that listens from the moment initialize() is called
StartList_Early(r) ==
  /\ boot \in {"readDB", "scanning", "listening"}
  /\ pc[r] = "idle"
  /\ StartScan(r)
  /\ pageResp = NoReply
  /\ pageResp' = pageResp
  /\ UNCHANGED <<dirVars, dbFile, coverFiles, coverOwner, comicsDB, nextId, boot,
                 parseFailed, listResp,
                 restarts>>

\* GET /api/comics arrives: the handler calls scanComicsDirectory()
StartList(r) ==
  /\ boot = "listening"
  /\ pc[r] = "idle"
  /\ StartScan(r)
  /\ pageResp = NoReply
  /\ pageResp' = pageResp
  /\ UNCHANGED <<dirVars, dbFile, coverFiles, coverOwner, comicsDB, nextId, boot,
                 parseFailed, listResp,
                 restarts>>

\* readdir has listed the directory: filter the zips and run the loop
ReaddirDone(p) ==
  /\ Alive
  /\ pc[p] = "readdir"
  /\ \E l \in Listings({f \in FileNames : dir[f] # Absent}) :
       Advance(p, SelectSeq(l, IsZip), 1, comicsDB)
  /\ pageResp = NoReply
  /\ pageResp' = pageResp
  /\ UNCHANGED <<dirVars, dbFile, coverFiles, coverOwner, comicsDB, parseFailed,
                 restarts>>

\* readdir has failed: the pass throws
ReaddirFail(p) ==
  /\ Alive
  /\ pc[p] = "readdir"
  /\ pc' = [pc EXCEPT ![p] = "failed"]
  /\ failure' = [failure EXCEPT ![p] = "readdir"]
  /\ Fail(p)
  /\ pageResp = NoReply
  /\ pageResp' = pageResp
  /\ UNCHANGED <<dirVars, dbFile, coverFiles, coverOwner, comicsDB, nextId,
                 parseFailed, files, idx, cur, pending, epoch,
                 restarts>>

\* the record pushed as it was built, its cover never set
WithCover_Unset(record) == record

\* the record with its cover set, as pushed
WithCover(record) == [record EXCEPT !.cover = CoverRef(record.id)]

\* the record put in front of the others
Push_Front(db, record) == <<record>> \o db

\* comicsDB.push(comicRecord)
Push(db, record) == Append(db, record)

\* writeFile(coverPath) has succeeded: set cover, push the record and call
\* writeFile(DB_FILE, JSON.stringify(comicsDB))
CoverWriteDone(p) ==
  /\ Alive
  /\ pc[p] = "cover"
  /\ coverFiles' = (cur[p].record.id :> cur[p].coverData) @@ coverFiles
  /\ coverOwner' = (cur[p].record.id :> cur[p].record.fileName) @@ coverOwner
  /\ comicsDB' = Push(comicsDB, WithCover(cur[p].record))
  /\ pending' = [pending EXCEPT ![p] = comicsDB']
  /\ pc' = [pc EXCEPT ![p] = "persist"]
  /\ pageResp = NoReply
  /\ pageResp' = pageResp
  /\ UNCHANGED <<dirVars, dbFile, nextId, boot, parseFailed, files, idx, cur,
                 failure, epoch, listResp,
                 restarts>>

\* writeFile(coverPath) has failed, leaving no file or a truncated one:
\* processNewComic throws, and so the pass
CoverWriteFail(p) ==
  /\ Alive
  /\ pc[p] = "cover"
  /\ pc' = [pc EXCEPT ![p] = "failed"]
  /\ failure' = [failure EXCEPT ![p] = "cover"]
  /\ \/ UNCHANGED <<coverFiles, coverOwner>>
     \/ /\ coverFiles' = (cur[p].record.id :> "truncated") @@ coverFiles
        /\ coverOwner' = (cur[p].record.id :> cur[p].record.fileName) @@ coverOwner
  /\ Fail(p)
  /\ pageResp = NoReply
  /\ pageResp' = pageResp
  /\ UNCHANGED <<dirVars, dbFile, comicsDB, nextId,
                 parseFailed, files, idx, cur, pending, epoch,
                 restarts>>

\* writeFile(DB_FILE) has succeeded: processNewComic returns, the loop goes on
PersistDone(p) ==
  /\ Alive
  /\ pc[p] = "persist"
  /\ dbFile' = DbOk(pending[p])
  /\ Advance(p, files[p], idx[p] + 1, comicsDB)
  /\ pageResp = NoReply
  /\ pageResp' = pageResp
  /\ UNCHANGED <<dirVars, coverFiles, coverOwner, comicsDB, parseFailed,
                 restarts>>

\* writeFile(DB_FILE) has failed, leaving the file as it was or truncated:
\* processNewComic throws, and so the pass
PersistFail(p) ==
  /\ Alive
  /\ pc[p] = "persist"
  /\ pc' = [pc EXCEPT ![p] = "failed"]
  /\ failure' = [failure EXCEPT ![p] = "persist"]
  /\ dbFile' \in {dbFile, DbCorrupt}
  /\ Fail(p)
  /\ pageResp = NoReply
  /\ pageResp' = pageResp
  /\ UNCHANGED <<dirVars, coverFiles, coverOwner, comicsDB, nextId,
                 parseFailed, files, idx, cur, pending, epoch,
                 restarts>>

(***************************************************************************)
(* GET /api/comic/:id/page/:pageNumber                                      *)
(***************************************************************************)
\* the digits at the front of s, as a number continuing acc; n counts them
RECURSIVE DigitsValue(_, _, _)
DigitsValue(s, acc, n) ==
  IF s # <<>> /\ IsDigit(Head(s))
    THEN DigitsValue(Tail(s), 10 * acc + (IndexOf(Digits, Head(s)) - 1), n + 1)
    ELSE [value |-> acc, count |-> n]

RECURSIVE SkipSpaces(_)
SkipSpaces(s) == IF s # <<>> /\ Head(s) = " " THEN SkipSpaces(Tail(s)) ELSE s

\* parseInt(s, 10): leading white space, a sign, then the longest run of
\* digits; NaN when there is no digit
ParseInt(s) ==
  LET t == SkipSpaces(s)
      neg == t # <<>> /\ Head(t) = "-"
      u == IF t # <<>> /\ Head(t) \in {"-", "+"} THEN Tail(t) ELSE t
      d == DigitsValue(u, 0, 0)
  IN  IF d.count = 0 THEN [nan |-> TRUE, value |-> 0]
      ELSE [nan |-> FALSE, value |-> IF neg THEN 0 - d.value ELSE d.value]

\* pageIndex < 0 || pageIndex >= images.length (false for NaN)
InvalidPage(pageIndex, n) ==
  ~pageIndex.nan /\ (pageIndex.value < 0 \/ pageIndex.value >= n)

\* the mimeType table, with its default
MimeType(ext) ==
  CASE ext = <<".", "j", "p", "g">> -> "image/jpeg"
    [] ext = <<".", "j", "p", "e", "g">> -> "image/jpeg"
    [] ext = <<".", "p", "n", "g">> -> "image/png"
    [] ext = <<".", "g", "i", "f">> -> "image/gif"
    [] ext = <<".", "w", "e", "b", "p">> -> "image/webp"
    [] OTHER -> "application/octet-stream"

\* the bound taken from the record
PageBound_Stored(comic, images) == comic.pageCount

\* images.length, the bound the handler checks the page index against
PageBound(comic, images) == Len(images)

\* page numbers counted from 1
PageSlot_OneBased(pageIndex) == pageIndex.value - 1

\* the array index of images[pageIndex]
PageSlot(pageIndex) == pageIndex.value

\* images[pageIndex] is undefined: reading image.name then throws
NoSuchImage(images, pageIndex) ==
  pageIndex.nan \/ PageSlot(pageIndex) \notin 0..(Len(images) - 1)

\* images[pageIndex] (JavaScript counts from 0)
PageEntry(images, pageIndex) == images[PageSlot(pageIndex) + 1]

\* the file name that filePath names
FileAt(filePath) == CHOOSE f \in FileNames : PathJoin(COMICS_DIR, f) = filePath

\* the handler validating the page index, against the stored pageCount,
\* before it looks for the archive on disk
PageReply_IndexFirst(db, d, id, pageNumber) ==
  LET pageIndex == ParseInt(pageNumber)
      found == {k \in 1..Len(db) : db[k].id = id}
      comic == db[CHOOSE k \in found : \A j \in found : k <= j]
      images == ArchiveImages(d[FileAt(comic.filePath)])
      image == PageEntry(images, pageIndex)
  IN  IF found = {}
        THEN Reply(id, pageNumber, 404, "text/html", "Comic not found")
      ELSE IF InvalidPage(pageIndex, comic.pageCount)
        THEN Reply(id, pageNumber, 400, "text/html", "Invalid page number")
      ELSE IF d[FileAt(comic.filePath)] = Absent
        THEN Reply(id, pageNumber, 404, "text/html", "File not found")
      ELSE IF d[FileAt(comic.filePath)] \notin ReadableContents
        THEN Reply(id, pageNumber, 500, "text/html", "Internal Server Error")
      ELSE IF InvalidPage(pageIndex, PageBound(comic, images))
        THEN Reply(id, pageNumber, 400, "text/html", "Invalid page number")
      ELSE IF NoSuchImage(images, pageIndex)
        THEN Reply(id, pageNumber, 500, "text/html", "Internal Server Error")
      ELSE Reply(id, pageNumber, 200, MimeType(ToLowerCase(ExtName(image.name))),
                 image.data)

\* the handler: it has no await, so it runs as one step
PageReply(db, d, id, pageNumber) ==
  LET pageIndex == ParseInt(pageNumber)
      found == {k \in 1..Len(db) : db[k].id = id}
      comic == db[CHOOSE k \in found : \A j \in found : k <= j]
      images == ArchiveImages(d[FileAt(comic.filePath)])
      image == PageEntry(images, pageIndex)
  IN  IF found = {}
        THEN Reply(id, pageNumber, 404, "text/html", "Comic not found")
      ELSE IF d[FileAt(comic.filePath)] = Absent
        THEN Reply(id, pageNumber, 404, "text/html", "File not found")
      ELSE IF d[FileAt(comic.filePath)] \notin ReadableContents
        THEN Reply(id, pageNumber, 500, "text/html", "Internal Server Error")
      ELSE IF InvalidPage(pageIndex, PageBound(comic, images))
        THEN Reply(id, pageNumber, 400, "text/html", "Invalid page number")
      ELSE IF NoSuchImage(images, pageIndex)
        THEN Reply(id, pageNumber, 500, "text/html", "Internal Server Error")
      ELSE Reply(id, pageNumber, 200, MimeType(ToLowerCase(ExtName(image.name))),
                 image.data)

\* the page numbers requested
PageNumbers == {<<"-", "1">>, <<"0">>, <<"1">>, <<"2">>, <<"x">>, <<"1", "x">>}

\* the ids requested: those of the index and one that no record has
RequestedIds == {comicsDB[k].id : k \in 1..Len(comicsDB)} \cup {nextId}

\* the handler dropping the record whose archive it finds missing
GetPage_Purging(id, pageNumber) ==
  /\ boot = "listening"
  /\ pageResp = NoReply
  /\ pageResp' = PageReply(comicsDB, dir, id, pageNumber)
  /\ comicsDB' = IF pageResp'.body = "File not found" THEN <<>> ELSE comicsDB
  /\ UNCHANGED <<dirVars, dbFile, coverFiles, coverOwner, nextId, boot,
                 parseFailed, passVars, listResp,
                 restarts>>

\* the request arrives and the handler runs to its response
GetPage(id, pageNumber) ==
  /\ boot = "listening"
  /\ pageResp = NoReply
  /\ pageResp' = PageReply(comicsDB, dir, id, pageNumber)
  /\ UNCHANGED <<dirVars, dbFile, coverFiles, coverOwner, comicsDB, nextId, boot,
                 parseFailed, passVars, listResp,
                 restarts>>

\* the response has left; pageResp shows a response in the state the handler
\* computed it in, so every other step waits for this one
PageSent ==
  /\ pageResp # NoReply
  /\ pageResp' = NoReply
  /\ UNCHANGED <<dirVars, dbFile, coverFiles, coverOwner, comicsDB, nextId, boot,
                 parseFailed, passVars, listResp,
                 restarts>>

(***************************************************************************)
(* The environment: a file of the comics directory is added, replaced or    *)
(* deleted.                                                                 *)
(***************************************************************************)
DirChange(f, c) ==
  /\ dirChanges < MaxDirChanges
  /\ c \in Holds(f)
  /\ c # dir[f]
  /\ dir' = [dir EXCEPT ![f] = c]
  /\ dirChanges' = dirChanges + 1
  /\ hadImages' = IF HasImages(c) THEN hadImages \cup {f} ELSE hadImages
  /\ pageResp = NoReply
  /\ pageResp' = pageResp
  /\ UNCHANGED <<dbFile, coverFiles, coverOwner, comicsDB, nextId, boot,
                 parseFailed, passVars, listResp,
                 restarts>>

(***************************************************************************)
(* Specifications.                                                          *)
(***************************************************************************)
Next ==
  \/ ReadDBDone
  \/ WriteEmptyDone
  \/ WriteEmptyFail
  \/ \E r \in Requests : StartList(r)
  \/ \E p \in Passes : ReaddirDone(p)
  \/ \E p \in Passes : ReaddirFail(p)
  \/ \E p \in Passes : CoverWriteDone(p)
  \/ \E p \in Passes : CoverWriteFail(p)
  \/ \E p \in Passes : PersistDone(p)
  \/ \E p \in Passes : PersistFail(p)
  \/ \E id \in RequestedIds, pageNumber \in PageNumbers : GetPage(id, pageNumber)
  \/ PageSent
  \/ \E f \in FileNames, c \in Contents \cup {Absent} : DirChange(f, c)

Spec == Init /\ [][Next]_vars

\* no pass is between its start and its end
NoPassRunning == \A p \in Passes : pc[p] \in {"idle", "done", "failed"}

\* a list request that arrives while no pass is running
StartListAlone(r) == NoPassRunning /\ StartList(r)

\* the same program with its reconciliation passes run one after the other
NextSeq ==
  \/ ReadDBDone
  \/ WriteEmptyDone
  \/ WriteEmptyFail
  \/ \E r \in Requests : StartListAlone(r)
  \/ \E p \in Passes : ReaddirDone(p)
  \/ \E p \in Passes : ReaddirFail(p)
  \/ \E p \in Passes : CoverWriteDone(p)
  \/ \E p \in Passes : CoverWriteFail(p)
  \/ \E p \in Passes : PersistDone(p)
  \/ \E p \in Passes : PersistFail(p)
  \/ \E id \in RequestedIds, pageNumber \in PageNumbers : GetPage(id, pageNumber)
  \/ PageSent
  \/ \E f \in FileNames, c \in Contents \cup {Absent} : DirChange(f, c)

SpecSeq == Init /\ [][NextSeq]_vars

\* the same program when no page request arrives
NextNoPage ==
  \/ ReadDBDone
  \/ WriteEmptyDone
  \/ WriteEmptyFail
  \/ \E r \in Requests : StartList(r)
  \/ \E p \in Passes : ReaddirDone(p)
  \/ \E p \in Passes : ReaddirFail(p)
  \/ \E p \in Passes : CoverWriteDone(p)
  \/ \E p \in Passes : CoverWriteFail(p)
  \/ \E p \in Passes : PersistDone(p)
  \/ \E p \in Passes : PersistFail(p)
  \/ \E f \in FileNames, c \in Contents \cup {Absent} : DirChange(f, c)

\* every I/O operation the program awaits settles, with success or with an
\* error
Fairness ==
  /\ WF_vars(ReadDBDone)
  /\ WF_vars(WriteEmptyDone \/ WriteEmptyFail)
  /\ \A p \in Passes :
       /\ WF_vars(ReaddirDone(p) \/ ReaddirFail(p))
       /\ WF_vars(CoverWriteDone(p) \/ CoverWriteFail(p))
       /\ WF_vars(PersistDone(p) \/ PersistFail(p))

SpecFair == Init /\ [][NextNoPage]_vars /\ Fairness

(***************************************************************************)
(* The process is killed and started again.                                 *)
(***************************************************************************)
\* the snapshots whose writeFile(DB_FILE) is in flight
InFlight == {pending[p] : p \in {q \in Passes : pc[q] = "persist"}}

\* what comics.json can hold once the process is dead: what it held, or,
\* when a writeFile(DB_FILE) was in flight, a truncated file or the whole of
\* what was being written
AfterKill ==
  {dbFile}
    \cup (IF boot = "writeEmpty" THEN {DbCorrupt, DbOk(<<>>)} ELSE {})
    \cup (IF InFlight # {} THEN {DbCorrupt} \cup {DbOk(db) : db \in InFlight} ELSE {})

\* the process dies (killed, or ended by an unhandled rejection) and is
\* started again: the files stay, the module is loaded with comicsDB = []
\* and initialize() is called; a cover being written is lost
Restart ==
  /\ restarts < MaxRestarts
  /\ restarts' = restarts + 1
  /\ dbFile' \in AfterKill
  /\ comicsDB' = <<>>
  /\ boot' = "readDB"
  /\ parseFailed' = FALSE
  /\ pc' = [p \in Passes |-> "idle"]
  /\ files' = [p \in Passes |-> <<>>]
  /\ idx' = [p \in Passes |-> 0]
  /\ cur' = [p \in Passes |-> NoCurrent]
  /\ pending' = [p \in Passes |-> <<>>]
  /\ failure' = [p \in Passes |-> None]
  /\ epoch' = [p \in Passes |-> 0]
  /\ listResp' = [r \in Requests |-> NoListReply]
  /\ pageResp = NoReply
  /\ pageResp' = pageResp
  /\ UNCHANGED <<dirVars, coverFiles, coverOwner, nextId>>

\* the program when no page request arrives and the process can be killed
\* and started again
NextRestart ==
  \/ NextNoPage
  \/ Restart

SpecRestart == Init /\ [][NextRestart]_vars

(***************************************************************************)
(* Properties.                                                              *)
(***************************************************************************)
\* the number of records of db for the archive f
CountFor(db, f) == Cardinality({k \in 1..Len(db) : db[k].fileName = f})

\* the .zip files of the directory
ZipFileNames == {ZipA, ZipB}

\* C1: in every reachable state the in-memory index, the durable snapshot and
\* every snapshot being written hold at most one record per fileName, also
\* when list requests overlap.
C1_OneRecordPerFileName ==
  \A f \in FileNames :
    /\ CountFor(comicsDB, f) <= 1
    /\ CountFor(dbFile.records, f) <= 1
    /\ \A p \in Passes : CountFor(pending[p], f) <= 1

\* the pass has ended and the directory is as it was when the pass started
EndedUnchanged(p) == pc[p] \in {"done", "failed"} /\ epoch[p] = dirChanges

\* C2: when a pass has ended, having at most failed on one archive (archive
\* unreadable or cover write failure), every other .zip of its listing with a
\* qualifying image has a record.
C2_FailureIsolated ==
  \A p \in Passes :
    (EndedUnchanged(p) /\ failure[p] \in {None, "archive", "cover"}) =>
      \A i \in 1..Len(files[p]) :
        (i # idx[p] /\ HasImages(dir[files[p][i]])) => CountFor(comicsDB, files[p][i]) >= 1

\* C3: when the stored index fails to parse, initialize() ends in a fatal
\* error: no pass runs, the stored file is not overwritten and the server
\* never listens.
C3_CorruptIndexIsFatal ==
  parseFailed =>
    /\ boot \notin {"scanning", "listening"}
    /\ pc[0] = "idle"
    /\ dbFile = DbCorrupt

\* s is a decimal integer literal: an optional minus sign, then digits only
IsIntegerLiteral(s) ==
  LET digits == IF s # <<>> /\ Head(s) = "-" THEN Tail(s) ELSE s
  IN  digits # <<>> /\ \A i \in 1..Len(digits) : IsDigit(digits[i])

\* the integer a decimal literal denotes
RECURSIVE NaturalOf(_)
NaturalOf(digits) ==
  IF digits = <<>> THEN 0
  ELSE 10 * NaturalOf(SubSeq(digits, 1, Len(digits) - 1))
       + (CHOOSE v \in 0..9 : Digits[v + 1] = digits[Len(digits)])

IntegerOf(s) == IF Head(s) = "-" THEN 0 - NaturalOf(Tail(s)) ELSE NaturalOf(s)

\* a page request has just been answered
Answered == pageResp # NoReply

\* the records the answered request's id resolves to
AnsweredRecords == {k \in 1..Len(comicsDB) : comicsDB[k].id = pageResp.id}

\* the record of the answered request (ids are unique)
AnsweredComic == comicsDB[CHOOSE k \in AnsweredRecords : TRUE]

\* the content of the archive of the answered request's record
AnsweredContent == dir[AnsweredComic.fileName]

\* the answered request named a record whose archive is on disk and readable
AnsweredReadable ==
  Answered /\ AnsweredRecords # {} /\ AnsweredContent \in ReadableContents

\* the pageNumber parameter denotes a valid index of an archive with n pages
ValidIndex(s, n) == IsIntegerLiteral(s) /\ 0 <= IntegerOf(s) /\ IntegerOf(s) < n

\* C4: a page request whose record's archive is readable and whose pageNumber
\* is no valid index (negative, too large or no number) is answered 400.
C4_InvalidPageIs400 ==
  (AnsweredReadable
     /\ ~ValidIndex(pageResp.pageNumber, QualifyingCount(AnsweredContent)))
    => pageResp.status = 400

\* a pass has completed and the directory is as it was when that pass started
Settled == \E q \in Passes : pc[q] = "done" /\ epoch[q] = dirChanges

\* C5: with the passes run one after the other, a completed pass leaves
\* exactly one record for every archive with a qualifying image, and from then
\* on, while the directory stays as it is, no step of a further pass changes
\* the index or the durable snapshot.
C5_Idempotent ==
  /\ [](Settled => \A f \in ZipFileNames : HasImages(dir[f]) => CountFor(comicsDB, f) = 1)
  /\ [][(Settled /\ dir' = dir) => (comicsDB' = comicsDB /\ dbFile' = dbFile)]_vars

\* two passes have completed one after the other on an unchanged directory
\* with two archives to index
C5_Witness ==
  /\ pc[0] = "done" /\ pc[1] = "done"
  /\ epoch[0] = dirChanges /\ epoch[1] = dirChanges
  /\ Len(comicsDB) = 2
  /\ listResp[1] = ListReply(comicsDB)

\* C6: an archive that never held a qualifying image never has a record, in
\* the index or in the durable snapshot, and no cover file is written for it.
C6_NoRecordWithoutImages ==
  \A f \in FileNames \ hadImages :
    /\ CountFor(comicsDB, f) = 0
    /\ CountFor(dbFile.records, f) = 0
    /\ \A i \in DOMAIN coverOwner : coverOwner[i] # f

\* two passes have gone over an archive without images
C6_Witness ==
  /\ dir[ZipA] = "noimg" /\ ZipA \notin hadImages
  /\ pc[0] = "done" /\ pc[1] = "done"
  /\ \A p \in {0, 1} : \E i \in 1..Len(files[p]) : files[p][i] = ZipA
  /\ Len(comicsDB) = 1

\* the page index of the answered request, when its parameter is a literal
AnsweredIndex == IntegerOf(pageResp.pageNumber)

\* C7: for a record whose archive is readable, a page request with index k is
\* answered 400 exactly when k < 0 or k >= the number of qualifying images
\* the archive holds now, whatever the stored pageCount; and the request
\* leaves the index, and so the stored pageCount, as it was.
C7_LiveBound ==
  /\ []((AnsweredReadable /\ IsIntegerLiteral(pageResp.pageNumber)) =>
          (pageResp.status = 400 <=>
             (AnsweredIndex < 0 \/ AnsweredIndex >= QualifyingCount(AnsweredContent))))
  /\ [][pageResp' # NoReply => comicsDB' = comicsDB]_vars

\* a request is answered 400 for an index below the stored pageCount
C7_Witness ==
  /\ AnsweredReadable
  /\ IsIntegerLiteral(pageResp.pageNumber)
  /\ pageResp.status = 400
  /\ 0 <= AnsweredIndex /\ AnsweredIndex < AnsweredComic.pageCount
  /\ AnsweredComic.pageCount = 3

\* comparison of two names by their code units
CodeTable == [c \in Chars |-> CharCode(c)]
ByteCompare(a, b) ==
  KeyCompare([i \in 1..Len(a) |-> CodeTable[a[i]]], [i \in 1..Len(b) |-> CodeTable[b[i]]])

\* comparison of two names in an order: "locale" or "bytes"
CompareNames(order, a, b) ==
  IF order = "locale" THEN LocaleCompare(a, b) ELSE ByteCompare(a, b)

\* the qualifying images of a content that sort before entry e by name
Before(content, e, order) ==
  {i \in 1..Len(QualifyingTable[content]) :
     CompareNames(order, QualifyingTable[content][i].name, e.name) < 0}

\* the k-th qualifying image of a content in an order of the names
Kth(content, k, order) ==
  LET q == QualifyingTable[content]
  IN  q[CHOOSE i \in 1..Len(q) : Cardinality(Before(content, q[i], order)) = k]

\* name ends with ext, whatever the letter case
EndsWith(name, ext) ==
  /\ Len(name) >= Len(ext)
  /\ \A i \in 1..Len(ext) :
       LET c == name[Len(name) - Len(ext) + i]
       IN  c = ext[i] \/ (IsUpper(c) /\ LowerChar(c) = ext[i])

\* the Content-Type of an image by its extension
TypeOf(name) ==
  CASE EndsWith(name, <<".", "j", "p", "g">>) -> "image/jpeg"
    [] EndsWith(name, <<".", "j", "p", "e", "g">>) -> "image/jpeg"
    [] EndsWith(name, <<".", "p", "n", "g">>) -> "image/png"
    [] EndsWith(name, <<".", "g", "i", "f">>) -> "image/gif"
    [] EndsWith(name, <<".", "w", "e", "b", "p">>) -> "image/webp"

\* the answer is 200 with the bytes and the type of the k-th image of the
\* archive in the classifier's order of names
AnsweredPage(k) ==
  /\ pageResp.status = 200
  /\ AnsweredContent \in ReadableContents
  /\ k < QualifyingCount(AnsweredContent)
  /\ pageResp.body = Kth(AnsweredContent, k, "locale").data
  /\ pageResp.type = TypeOf(Kth(AnsweredContent, k, "locale").name)

C9_ByteWiseOrder ==
  /\ (AnsweredReadable /\ IsIntegerLiteral(pageResp.pageNumber) /\ pageResp.status = 200)
       => pageResp.body = Kth(AnsweredContent, AnsweredIndex, "bytes").data
  /\ \A p \in Passes :
       (pc[p] = "cover" /\ epoch[p] = dirChanges)
         => cur[p].coverData = Kth(dir[cur[p].record.fileName], 0, "bytes").data

\* C10: when the rewrite of the durable snapshot fails during an append of a
\* running server, the in-memory index keeps no record that the durable
\* snapshot lacks.
C10_AppendAtomic ==
  \A p \in Requests :
    (Alive /\ pc[p] = "failed" /\ failure[p] = "persist") =>
      \A k \in 1..Len(comicsDB) :
        comicsDB[k].id = cur[p].record.id =>
          \E j \in 1..Len(dbFile.records) : dbFile.records[j] = comicsDB[k]

\* the records of a sequence of records
RecordsOf(db) == {db[k] : k \in 1..Len(db)}

\* every record a reader can see: in the index, in the durable snapshot or in
\* a snapshot being written
VisibleRecords ==
  RecordsOf(comicsDB) \cup RecordsOf(dbFile.records)
    \cup UNION {RecordsOf(pending[p]) : p \in Passes}

\* the first qualifying images of the archives, the bytes a whole cover holds
FirstImages == {Kth(c, 0, "locale").data : c \in {x \in ReadableContents : HasImages(x)}}

\* the cover file of comic id has been written in full from archive f
WholeCover(id, f) ==
  /\ id \in DOMAIN coverFiles
  /\ coverFiles[id] \in FirstImages
  /\ coverOwner[id] = f

\* C11: every record in the index, in the durable snapshot and in a snapshot
\* being written has the cover '/covers/<id>.jpg', and that cover file was
\* written in full from the record's archive; a pass whose cover write failed
\* has appended no record for that archive.
C11_CoverBeforeRecord ==
  /\ \A record \in VisibleRecords :
       /\ record.cover # <<>>
       /\ record.cover = <<"/covers/", record.id, ".jpg">>
       /\ WholeCover(record.id, record.fileName)
  /\ \A p \in Passes :
       (pc[p] = "failed" /\ failure[p] = "cover") =>
         \A record \in VisibleRecords : record.id # cur[p].record.id

\* a pass has indexed one archive and failed to write the cover of the next,
\* leaving a truncated cover file behind
C11_Witness ==
  \E p \in Passes :
    /\ pc[p] = "failed" /\ failure[p] = "cover"
    /\ cur[p].record.id \in DOMAIN coverFiles
    /\ coverFiles[cur[p].record.id] = "truncated"
    /\ Len(comicsDB) >= 1
    /\ dbFile = DbOk(comicsDB)

\* db is a leading part of db2, record for record
IsPrefix(db, db2) ==
  /\ Len(db) <= Len(db2)
  /\ \A k \in 1..Len(db) : db2[k] = db[k]

\* C12: during a process run no step removes, reorders or modifies a record
\* of the in-memory index: whatever passes, list requests, page requests and
\* deletions of archives happen, the index before a step is a leading part of
\* the index after it.
C12_AppendOnly == [][IsPrefix(comicsDB, comicsDB')]_vars

\* an indexed archive has been deleted, and a list request that started after
\* the deletion has been answered with an index that still holds its record
C12_Witness ==
  \E r \in Requests :
    /\ dir[ZipA] = Absent
    /\ pc[r] = "done" /\ epoch[r] = dirChanges
    /\ CountFor(comicsDB, ZipA) = 1
    /\ Len(comicsDB) = 2
    /\ listResp[r] = ListReply(comicsDB)

\* C13: whatever the pageNumber, a page request whose id matches no record is
\* answered 404 'Comic not found', and one whose record's archive is no
\* longer on disk is answered 404 'File not found'.
C13_NotFoundFirst ==
  Answered =>
    /\ AnsweredRecords = {} =>
         (pageResp.status = 404 /\ pageResp.body = "Comic not found")
    /\ (AnsweredRecords # {} /\ AnsweredContent = Absent) =>
         (pageResp.status = 404 /\ pageResp.body = "File not found")

\* a page beyond the stored pageCount is requested of a record whose archive
\* has been deleted
C13_Witness ==
  /\ Answered
  /\ AnsweredRecords # {}
  /\ AnsweredContent = Absent
  /\ pageResp.pageNumber = <<"2">>
  /\ AnsweredComic.pageCount = 2
  /\ pageResp.body = "File not found"

\* pass p starts building a record in this step
StartsRecord(p) == pc[p] # "cover" /\ pc'[p] = "cover"

\* pass p appends its record in this step
AppendsRecord(p) == pc[p] = "cover" /\ pc'[p] = "persist"

\* C14: every record of the index has pageCount >= 1; the pageCount of a
\* record being built is the number of qualifying images its archive holds
\* at that moment, and its cover bytes are the first of those images; the
\* record appended carries that pageCount and its cover file those bytes.
C14_PageCountIsListLength ==
  /\ [](\A record \in RecordsOf(comicsDB) : record.pageCount >= 1)
  /\ [][\A p \in Passes : StartsRecord(p) =>
          /\ cur'[p].record.pageCount = QualifyingCount(dir[cur'[p].record.fileName])
          /\ cur'[p].coverData = Kth(dir[cur'[p].record.fileName], 0, "locale").data]_vars
  /\ [][\A p \in Passes : AppendsRecord(p) =>
          /\ comicsDB'[Len(comicsDB')].id = cur[p].record.id
          /\ comicsDB'[Len(comicsDB')].pageCount = cur[p].record.pageCount
          /\ coverFiles'[cur[p].record.id] = cur[p].coverData]_vars

\* the record of an archive indexed with three images, whose cover is the
\* first of them, after the archive was replaced by one with two images
C14_Witness ==
  \E record \in RecordsOf(comicsDB) :
    /\ record.fileName = ZipA
    /\ record.pageCount = 3
    /\ coverFiles[record.id] = "a.webp"
    /\ dir[ZipA] = "two"

\* an I/O operation of some pass has failed
SomeIOFailed == \E p \in Passes : failure[p] \in {"readdir", "cover", "persist"}

\* C15: every list request that has started its pass is eventually answered
\* with a 200 response, unless an I/O operation fails.
C15_ListAnswered ==
  \A r \in Requests :
    (pc[r] = "readdir") ~> (listResp[r].status = 200 \/ SomeIOFailed)

\* the complete snapshots a kill may leave: the one the file held, or one
\* that was being written
WholeSnapshots ==
  {dbFile}
    \cup {DbOk(pending[p]) : p \in {q \in Passes : pc[q] = "persist"}}
    \cup (IF boot = "writeEmpty" THEN {DbOk(<<>>)} ELSE {})

\* C16: when the process is killed, also in the middle of a persist, the
\* durable index file holds the complete previous snapshot or the complete
\* new one.
C16_AtomicRewrite == [][restarts' # restarts => dbFile' \in WholeSnapshots]_vars

\* the index has been loaded from a parseable file, no processNewComic call
\* is under way and none has failed
Quiescent ==
  /\ boot \in {"scanning", "listening"}
  /\ ~parseFailed
  /\ \A p \in Passes : pc[p] \notin {"cover", "persist"} /\ failure[p] = None

\* C17: whenever no processNewComic call is under way and none has failed,
\* the durable snapshot equals the in-memory index, record for record and in
\* the same order, also when passes overlap.
C17_DurableEqualsMemory == Quiescent => dbFile = DbOk(comicsDB)

\* a page request is answered in this step
AnswersPage == pageResp = NoReply /\ pageResp' # NoReply

\* C18: every page request is answered with one response of status 200, 400,
\* 404 or 500, a record whose archive cannot be opened giving 500; and the
\* step that answers it leaves the index, the durable snapshot, the cover
\* files, the running passes and the process as they were.
C18_PageRequestIsolated ==
  /\ [](Answered => pageResp.status \in {200, 400, 404, 500})
  /\ []((Answered /\ AnsweredRecords # {} /\ AnsweredContent = "corrupt")
          => pageResp.status = 500)
  /\ [][AnswersPage =>
          /\ comicsDB' = comicsDB
          /\ dbFile' = dbFile
          /\ coverFiles' = coverFiles
          /\ pc' = pc /\ cur' = cur /\ pending' = pending
          /\ boot' = boot]_vars

\* a page is asked of a record whose archive has become unreadable, while
\* the pass of a list request is under way
C18_Witness ==
  /\ Answered
  /\ AnsweredRecords # {}
  /\ AnsweredContent = "corrupt"
  /\ pageResp.status = 500
  /\ \E p \in Requests : pc[p] \in {"readdir", "cover", "persist"}

\* the initial pass has completed without error
InitialPassDone == pc[0] = "done" /\ failure[0] = None

\* C19: the server listens, and a list or page request is handled, only when
\* the initial pass has completed without error; that pass starts only after
\* the load, with a stored index file in place; and a load that found no
\* file moves on to the scan only with '[]' written and an empty index.
C19_StartupOrder ==
  /\ [](boot = "listening" => InitialPassDone)
  /\ [](\A r \in Requests : pc[r] # "idle" => InitialPassDone)
  /\ [](Answered => InitialPassDone)
  /\ [](pc[0] # "idle" => (boot \notin {"readDB", "writeEmpty"} /\ dbFile.state # "absent"))
  /\ [][(boot = "writeEmpty" /\ pc'[0] # "idle")
          => (dbFile' = DbOk(<<>>) /\ comicsDB' = <<>>)]_vars

\* the server listens after an initial pass that indexed an archive, and has
\* answered a list request and a page request
C19_Witness ==
  /\ boot = "listening"
  /\ InitialPassDone
  /\ Len(files[0]) >= 1
  /\ Len(comicsDB) >= 1
  /\ \E r \in Requests : listResp[r].status = 200
  /\ Answered /\ pageResp.status = 200

====
